---- MODULE Spec2Model ----
(***************************************************************************)
(* Model of the xmtp-node-go API server (pkg/api/server.go) and of the     *)
(* tracing wrapper (pkg/tracing/tracing.go): server construction, the      *)
(* interceptor chain, the telemetry interceptor, the background serve      *)
(* loops and Close.                                                        *)
(***************************************************************************)
EXTENDS Naturals, Sequences, FiniteSets, TLC

\* ------------------------------------------------------------------ bounds

\* Number of inbound calls the model lets arrive.
MaxCalls == 2

CallIds == 1..MaxCalls

\* Number of concurrent requests followed through the request pipeline.
MaxReqs == 2

ReqIds == 1..MaxReqs

\* ------------------------------------------------------------------ values

Nil == "nil"

\* What recover() yields in Do's deferred function: nil when the action
\* returned, otherwise the value the action panicked with.  kind says whether
\* the value implements error (the type switch of tracing.go:41-50).
NoPanic == [kind |-> "nil", val |-> "nil"]

PanicValues ==
    { [kind |-> "error", val |-> "e1"],
      [kind |-> "error", val |-> "e2"],
      [kind |-> "other", val |-> "s1"] }

Recovered == {NoPanic} \cup PanicValues

\* The background tasks the server spawns, by span name.
ServeTasks == {"grpc", "http"}

\* ------------------------------------------------------ tracing.Do (pure)

\* What Do does for an action that ends with r (NoPanic: it returned), as the
\* sequence of span events and the value that leaves Do (NoPanic: Do returns).
\* Variant of Do without the re-panic of line 53.
DoSwallow(r) ==
    [ events |-> <<[op |-> "start", val |-> NoPanic],
                   [op |-> "finish", val |-> IF r.kind = "error" THEN r ELSE NoPanic]>>,
      out |-> NoPanic ]

\* Variant of Do whose type switch always takes the WithError branch.
DoTagAlways(r) ==
    [ events |-> <<[op |-> "start", val |-> NoPanic],
                   [op |-> "finish", val |-> r]>>
                 \o (IF r # NoPanic THEN <<[op |-> "panic", val |-> r]>> ELSE <<>>),
      out |-> r ]

\* Do, tracing.go:37-57.
Do(r) ==
    LET started  == <<[op |-> "start", val |-> NoPanic]>>
        finished == IF r.kind = "error"
                    THEN <<[op |-> "finish", val |-> r]>>
                    ELSE <<[op |-> "finish", val |-> NoPanic]>>
        repanic  == IF r # NoPanic
                    THEN <<[op |-> "panic", val |-> r]>>
                    ELSE <<>>
    IN  [ events |-> started \o finished \o repanic, out |-> r ]

\* tracing.PanicWrap: runs Do(body) under its own recover and logs what it
\* recovered; nothing leaves it.
PanicWrap(r) ==
    LET d == Do(r)
    IN  [ events |-> d.events, doOut |-> d.out, logged |-> d.out, out |-> NoPanic ]

\* A body started with a bare go statement: no Do, no span, no recover, no
\* log; what the body raises leaves the goroutine.
BareGo(r) ==
    [ events |-> <<>>, doOut |-> NoPanic, logged |-> NoPanic, out |-> r ]

\* How startGRPC / startHTTP start each background body.
\* Variant: every body started with a bare go statement.
SpawnedWithAllBare(name) == "go"

SpawnedWith(name) ==
    IF name = "janitor" THEN "go" ELSE "GoPanicWrap"

\* --------------------------------------------------- interceptor chains

\* The interceptor lists startGRPC builds (unary and stream get the same
\* entries in the same order).
\* Variant: the authorizer appended before the telemetry interceptor.
BuildChainAuthFirst(authnEnabled) ==
    <<"metrics">> \o (IF authnEnabled THEN <<"auth">> ELSE <<>>) \o <<"telemetry">>

BuildChain(authnEnabled) ==
    <<"metrics", "telemetry">> \o (IF authnEnabled THEN <<"auth">> ELSE <<>>)

\* A handler's result: the error it returned ("nil": success) or a panic.
Result(err, panicked) == [err |-> err, panicked |-> panicked]

\* TelemetryInterceptor.Unary: call the handler, record its error, return it.
\* A panic of the handler leaves the interceptor before record is reached.
\* Variant: record only reached when the handler returned no error.
TelemetryUnaryNoErrRecord(next) ==
    [ recs |-> IF next.panicked \/ next.err # Nil THEN <<>> ELSE <<next.err>>,
      res |-> next ]

TelemetryUnary(next) ==
    [ recs |-> IF next.panicked THEN <<>> ELSE <<next.err>>, res |-> next ]

\* Variant: the stream interceptor passing the handler's error to record.
TelemetryStreamRecordsErr(next) ==
    [ recs |-> IF next.panicked THEN <<>> ELSE <<next.err>>, res |-> next ]

\* TelemetryInterceptor.Stream: call the handler, record nil, return its error.
TelemetryStream(next) ==
    [ recs |-> IF next.panicked THEN <<>> ELSE <<Nil>>, res |-> next ]

Telemetry(kind, next) ==
    IF kind = "unary" THEN TelemetryUnary(next) ELSE TelemetryStream(next)

\* The authorizer's interceptor: admits the call to the next handler, or
\* rejects it with a status error without calling the next handler.
Authorize(authOk) == IF authOk THEN "next" ELSE "reject"

Denied == "PermissionDenied"

\* middleware.Chain*Server, way in: interceptors chain[i..] are entered in
\* order until the handler is reached or the authorizer rejects the call.
RECURSIVE Descend(_, _, _)
Descend(chain, i, authOk) ==
    IF i > Len(chain)
    THEN [trace |-> <<"handler">>, reached |-> TRUE, depth |-> Len(chain)]
    ELSE IF chain[i] = "auth" /\ Authorize(authOk) = "reject"
         THEN [trace |-> <<"auth">>, reached |-> FALSE, depth |-> i - 1]
         ELSE LET rest == Descend(chain, i + 1, authOk)
              IN  [rest EXCEPT !.trace = <<chain[i]>> \o @]

\* middleware.Chain*Server, way out: result res returns through interceptors
\* chain[i], chain[i-1], ..., chain[1]; the telemetry records made on the way.
RECURSIVE Unwind(_, _, _, _)
Unwind(chain, kind, i, res) ==
    IF i = 0
    THEN [recs |-> <<>>, res |-> res]
    ELSE IF chain[i] = "telemetry"
         THEN LET t == Telemetry(kind, res)
                  up == Unwind(chain, kind, i - 1, t.res)
              IN  [recs |-> t.recs \o up.recs, res |-> up.res]
         ELSE Unwind(chain, kind, i - 1, res)

\* ------------------------------------------------ strings, as token lists

\* strings.HasPrefix.
IsPrefixOf(p, s) == Len(p) <= Len(s) /\ SubSeq(s, 1, Len(p)) = p

\* A string is a sequence of tokens: the characters that the code looks for
\* ("/", ",", " ") are tokens of their own, any other token stands for a run
\* of characters that holds none of them.
SeqsUpTo(A, n) == UNION { [1..k -> A] : k \in 0..n }

\* strings.Index for a one-character separator: the position (from 1) of the
\* first sep in s, 0 when there is none (Go: -1).
Index(s, sep) ==
    IF \E i \in DOMAIN s : s[i] = sep
    THEN CHOOSE i \in DOMAIN s : s[i] = sep /\ \A j \in 1..(i - 1) : s[j] # sep
    ELSE 0

\* strings.TrimPrefix for a one-character prefix.
TrimPrefix(s, prefix) ==
    IF Len(s) > 0 /\ s[1] = prefix THEN Tail(s) ELSE s

\* strings.Split for a one-character separator.
RECURSIVE Split(_, _)
Split(s, sep) ==
    LET i == Index(s, sep)
    IN  IF i = 0
        THEN <<s>>
        ELSE <<SubSeq(s, 1, i - 1)>> \o Split(SubSeq(s, i + 1, Len(s)), sep)

\* strings.TrimSpace.
RECURSIVE TrimLeft(_)
TrimLeft(s) == IF Len(s) > 0 /\ s[1] = " " THEN TrimLeft(Tail(s)) ELSE s

RECURSIVE TrimRight(_)
TrimRight(s) ==
    IF Len(s) > 0 /\ s[Len(s)] = " " THEN TrimRight(SubSeq(s, 1, Len(s) - 1)) ELSE s

TrimSpace(s) == TrimRight(TrimLeft(s))

\* strings.Join.
RECURSIVE Join(_, _)
Join(elems, sep) ==
    IF Len(elems) = 0 THEN <<>>
    ELSE IF Len(elems) = 1 THEN <<elems[1]>>
    ELSE <<elems[1], sep>> \o Join(Tail(elems), sep)

\* ----------------------------------------------------- telemetry record

Unknown == <<"unknown">>

\* Variant: the leading slash is not removed.
splitMethodNameNoTrim(fullMethodName) ==
    LET i == Index(fullMethodName, "/")
    IN  IF i > 0
        THEN <<SubSeq(fullMethodName, 1, i - 1),
               SubSeq(fullMethodName, i + 1, Len(fullMethodName))>>
        ELSE <<Unknown, Unknown>>

\* splitMethodName: <<serviceName, methodName>>.
splitMethodName(fullMethodName) ==
    LET trimmed == TrimPrefix(fullMethodName, "/")
        i == Index(trimmed, "/")
    IN  IF i > 0
        THEN <<SubSeq(trimmed, 1, i - 1), SubSeq(trimmed, i + 1, Len(trimmed))>>
        ELSE <<Unknown, Unknown>>

\* Variant: the first element is not trimmed.
ClientIPFieldNoTrim(ips) ==
    IF Len(ips) > 0 THEN <<Split(ips[1], ",")[1]>> ELSE <<>>

\* record, lines 365-370: the client_ip fields appended for the
\* x-forwarded-for values ips (md.Get): none, or one.
ClientIPField(ips) ==
    IF Len(ips) > 0 THEN <<TrimSpace(Split(ips[1], ",")[1])>> ELSE <<>>

\* ------------------------------------------------------------ HTTP side

OriginHeader == <<"Access-Control-Allow-Origin", <<"*">>>>

\* preflightHandler: the headers it sets.
preflightHandler ==
    { <<"Access-Control-Allow-Headers",
        Join(<<"Content-Type", "Accept", "Authorization", "X-Client-Version",
               "X-App-Version", "Baggage", "DNT", "Sec-CH-UA", "Sec-CH-UA-Mobile",
               "Sec-CH-UA-Platform", "Sentry-Trace", "User-Agent">>, ",")>>,
      <<"Access-Control-Allow-Methods",
        Join(<<"GET", "HEAD", "POST", "PUT", "PATCH", "DELETE">>, ",")>> }

\* The root handler startHTTP mounts on the mux: which handler serves a path.
RootHandler(path) ==
    IF path = <<"/">> \/ IsPrefixOf(<<"/", "swagger-ui">>, path) THEN "swaggerUI"
    ELSE IF path = <<"/", "swagger.json">> THEN "swaggerJSON"
    ELSE "gwmux"

\* Variant: every OPTIONS request taken for a preflight.
allowCORSAnyOptions(req) ==
    IF req.method = "OPTIONS"
    THEN [headers |-> {OriginHeader} \cup preflightHandler, servedBy |-> "preflight"]
    ELSE [headers |-> {OriginHeader}, servedBy |-> RootHandler(req.path)]

\* allowCORS around the mux (the gzip wrapper in between passes the request
\* on): the headers allowCORS and preflightHandler set, and who serves the
\* request.  req.acrm is the Access-Control-Request-Method header ("" when
\* absent).
allowCORS(req) ==
    IF req.method = "OPTIONS" /\ req.acrm # ""
    THEN [headers |-> {OriginHeader} \cup preflightHandler, servedBy |-> "preflight"]
    ELSE [headers |-> {OriginHeader}, servedBy |-> RootHandler(req.path)]

\* ------------------------------------------------------------------- state

VARIABLES
    authn,          \* Config.Authn.Enable
    mls,            \* Config.MlsStore != nil && Config.EnableMls
    phase,          \* how far New has got
    srv,            \* what New returned to its caller: "none" (not yet), "nil", "s"
    grpcListener,   \* Server.grpcListener: "nil", "open", "closed"
    httpListener,   \* Server.httpListener: "nil", "open", "closed"
    messagev1,      \* Server.messagev1: "nil", "open", "closed"
    messagev3,      \* Server.messagev3: "nil", "open", "closed"
    unary,          \* the unary interceptor list given to grpc.NewServer
    stream,         \* the stream interceptor list given to grpc.NewServer
    janitor,        \* the rate limiter's Janitor goroutine: "none", "running"
    wg,             \* Server.wg's counter
    tasks,          \* the serve loops started by startGRPC / startHTTP
    crashed,        \* "no", or what took the process down
    closePc,        \* where Close is
    closeTrace,     \* the steps Close has performed, in order
    closeLogged,    \* the errors Close has logged
    calls,          \* the inbound calls
    newErr,         \* the error New returned ("nil": none)
    reqs,           \* requests on a running server, with their telemetry inputs
    sink,           \* the telemetry records emitted, in order
    probe           \* one evaluation of a request-handling function

vars == <<authn, mls, phase, srv, grpcListener, httpListener, messagev1, messagev3,
          unary, stream, janitor, wg, tasks, crashed, closePc, closeTrace,
          closeLogged, calls, newErr, reqs, sink, probe>>

config   == <<authn, mls>>
pipeline == <<reqs, sink, probe>>
handles  == <<grpcListener, httpListener, messagev1, messagev3>>
chains   == <<unary, stream>>
closing  == <<closePc, closeTrace, closeLogged>>

NoTask == [pc |-> "none", body |-> NoPanic, span |-> <<>>, doOut |-> NoPanic,
           logged |-> NoPanic, serveLog |-> FALSE]

\* A handler's result with the response it returned beside the error.
NoResult == [err |-> Nil, panicked |-> FALSE, resp |-> Nil]

\* A request nothing has been done with yet.
IdleReq ==
    [ pc |-> "idle", via |-> "none", kind |-> "none", fullMethod |-> <<>>,
      xff |-> <<>>, servedBy |-> "none", call |-> FALSE, trace |-> <<>>,
      depth |-> 0, hres |-> NoResult, ret |-> NoResult, recErrs |-> <<>> ]

NoProbe == [fn |-> "none"]

IdleCall == [pc |-> "idle", kind |-> "none", trace |-> <<>>, recs |-> <<>>,
             rejected |-> FALSE, res |-> Result(Nil, FALSE)]

Init ==
    /\ authn \in BOOLEAN
    /\ mls \in BOOLEAN
    /\ phase = "Unstarted"
    /\ srv = "none"
    /\ grpcListener = Nil
    /\ httpListener = Nil
    /\ messagev1 = Nil
    /\ messagev3 = Nil
    /\ unary = <<>>
    /\ stream = <<>>
    /\ janitor = "none"
    /\ wg = 0
    /\ tasks = [t \in ServeTasks |-> NoTask]
    /\ crashed = "no"
    /\ closePc = "idle"
    /\ closeTrace = <<>>
    /\ closeLogged = {}
    /\ calls = [c \in CallIds |-> IdleCall]
    /\ newErr = Nil
    /\ reqs = [r \in ReqIds |-> IdleReq]
    /\ sink = <<>>
    /\ probe = NoProbe

Alive == crashed = "no"

\* tracing.GoPanicWrap / go: the new goroutine, and for GoPanicWrap wg.Add(1).
Spawned == [NoTask EXCEPT !.pc = "running"]

WgAfterSpawn(name, n) ==
    IF SpawnedWith(name) = "GoPanicWrap" THEN n + 1 ELSE n

\* ------------------------------------------------------------------- New

\* New, lines 55-64: config.validate, then the Server value is built.
\* validOk: whether validate succeeds.
NewBegin(validOk) ==
    /\ Alive
    /\ phase = "Unstarted"
    /\ IF validOk
       THEN phase' = "StartingGRPC" /\ srv' = "none" /\ newErr' = Nil
       ELSE phase' = "Failed" /\ srv' = "nil" /\ newErr' = "invalid config"
    /\ UNCHANGED <<config, pipeline, handles, chains, janitor, wg, tasks, crashed,
                   closing, calls>>

\* New, lines 66-70: startGRPC, and the return of its error.
\* bindOk, v1Ok, v3Ok: whether net.Listen, messagev1.NewService and
\* messagev3.NewService succeed.
NewStartGRPC(bindOk, v1Ok, v3Ok) ==
    /\ Alive
    /\ phase = "StartingGRPC"
    /\ IF ~bindOk
       THEN /\ phase' = "Failed"
            /\ srv' = "nil"
            /\ newErr' = "creating grpc listener"
            /\ UNCHANGED <<handles, chains, janitor, wg, tasks>>
       ELSE /\ grpcListener' = "open"
            /\ unary' = BuildChain(authn)
            /\ stream' = BuildChain(authn)
            /\ janitor' = IF authn THEN "running" ELSE "none"
            /\ httpListener' = httpListener
            /\ IF ~v1Ok
               THEN /\ phase' = "Failed"
                    /\ srv' = "nil"
                    /\ newErr' = "creating message service"
                    /\ UNCHANGED <<messagev1, messagev3, wg, tasks>>
               ELSE IF mls /\ ~v3Ok
               THEN /\ phase' = "Failed"
                    /\ srv' = "nil"
                    /\ newErr' = "creating mls service"
                    /\ messagev1' = "open"
                    /\ UNCHANGED <<messagev3, wg, tasks>>
               ELSE /\ phase' = "StartingHTTP"
                    /\ srv' = "none"
                    /\ newErr' = Nil
                    /\ messagev1' = "open"
                    /\ messagev3' = IF mls THEN "open" ELSE Nil
                    /\ wg' = WgAfterSpawn("grpc", wg)
                    /\ tasks' = [tasks EXCEPT !["grpc"] = Spawned]
    /\ UNCHANGED <<config, pipeline, crashed, closing, calls>>

\* The error startHTTP returns, by the first step of it that fails.
StartHTTPError(dialOk, regOk, reg3Ok, bindOk) ==
    IF ~dialOk THEN "dialing grpc server"
    ELSE IF ~regOk THEN "registering message handler"
    ELSE IF mls /\ ~reg3Ok THEN "registering mls handler"
    ELSE IF ~bindOk THEN "creating grpc-gateway listener"
    ELSE Nil

\* Variant: New going on to startHTTP without looking at startGRPC's error.
NewStartHTTPAfterError(dialOk, regOk, reg3Ok, bindOk) ==
    /\ Alive
    /\ phase \in {"StartingHTTP", "Failed"}
    /\ srv' = "s"
    /\ phase' = "Running"
    /\ newErr' = Nil
    /\ httpListener' = "open"
    /\ wg' = WgAfterSpawn("http", wg)
    /\ tasks' = [tasks EXCEPT !["http"] = Spawned]
    /\ UNCHANGED <<config, pipeline, grpcListener, messagev1, messagev3, chains,
                   janitor, crashed, closing, calls>>

\* The rest of New, lines 72-78: startHTTP.  dialOk, regOk, reg3Ok, bindOk:
\* whether dialGRPC, RegisterMessageApiHandler, RegisterMlsApiHandler and
\* net.Listen succeed.
NewStartHTTP(dialOk, regOk, reg3Ok, bindOk) ==
    /\ Alive
    /\ phase = "StartingHTTP"
    /\ newErr' = StartHTTPError(dialOk, regOk, reg3Ok, bindOk)
    /\ IF StartHTTPError(dialOk, regOk, reg3Ok, bindOk) # Nil
       THEN /\ phase' = "Failed"
            /\ srv' = "nil"
            /\ UNCHANGED <<httpListener, wg, tasks>>
       ELSE /\ phase' = "Running"
            /\ srv' = "s"
            /\ httpListener' = "open"
            /\ wg' = WgAfterSpawn("http", wg)
            /\ tasks' = [tasks EXCEPT !["http"] = Spawned]
    /\ UNCHANGED <<config, pipeline, grpcListener, messagev1, messagev3, chains,
                   janitor, crashed, closing, calls>>

\* ------------------------------------------------------- background tasks

ListenerOf(t) == IF t = "grpc" THEN grpcListener ELSE httpListener

\* The body of a serve loop ends: Serve returned (r = NoPanic) because its
\* listener was closed (serveErr = "closed") or for another reason
\* (serveErr = "other", which the body logs), or the body panicked with r.
\* The wrappers around the body then run to the end of the goroutine.
\* Serve closes its listener when it returns.
TaskEnd(t, r, serveErr) ==
    /\ Alive
    /\ tasks[t].pc = "running"
    /\ serveErr = "closed" => (r = NoPanic /\ ListenerOf(t) = "closed")
    /\ LET wrapped == SpawnedWith(t) = "GoPanicWrap"
           w == IF wrapped THEN PanicWrap(r) ELSE BareGo(r)
       IN  /\ tasks' = [tasks EXCEPT ![t] =
                          [ pc       |-> IF w.out = NoPanic THEN "done" ELSE "escaped",
                            body     |-> r,
                            span     |-> w.events,
                            doOut    |-> w.doOut,
                            logged   |-> w.logged,
                            serveLog |-> (r = NoPanic /\ serveErr = "other") ]]
           /\ crashed' = IF w.out = NoPanic THEN crashed ELSE "task"
           /\ wg' = IF wrapped THEN wg - 1 ELSE wg
    /\ IF t = "grpc"
       THEN grpcListener' = "closed" /\ UNCHANGED httpListener
       ELSE httpListener' = "closed" /\ UNCHANGED grpcListener
    /\ UNCHANGED <<config, pipeline, newErr, phase, srv, messagev1, messagev3, chains, janitor,
                   closing, calls>>

\* ------------------------------------------------------------------ Close

\* Close, first step: the receiver is dereferenced (s.Log), then messagev1 is
\* closed when set.  A nil receiver panics at the dereference.
CloseServices ==
    /\ Alive
    /\ closePc = "idle"
    /\ srv # "none"
    /\ IF srv = "nil"
       THEN /\ closePc' = "panicked"
            /\ crashed' = "close"
            /\ UNCHANGED <<messagev1, closeTrace>>
       ELSE /\ closePc' = "http"
            /\ crashed' = crashed
            /\ messagev1' = IF messagev1 # Nil THEN "closed" ELSE messagev1
            /\ closeTrace' = IF messagev1 # Nil
                             THEN Append(closeTrace, "services")
                             ELSE closeTrace
    /\ UNCHANGED <<config, pipeline, newErr, phase, srv, grpcListener, httpListener, messagev3, chains,
                   janitor, wg, tasks, closeLogged, calls>>

\* Close, second step: httpListener.Close(); its error is logged.  Closing a
\* listener its serve loop has already closed returns an error.
\* Variant: Close returning at the HTTP listener's close error.
CloseHTTPStopOnError ==
    /\ Alive
    /\ closePc = "http"
    /\ IF httpListener # Nil
       THEN /\ httpListener' = "closed"
            /\ closeTrace' = Append(closeTrace, "http")
            /\ closeLogged' = IF httpListener = "closed"
                              THEN closeLogged \cup {"closing http listener"}
                              ELSE closeLogged
            /\ closePc' = IF httpListener = "closed" THEN "closed" ELSE "grpc"
       ELSE /\ closePc' = "grpc"
            /\ UNCHANGED <<httpListener, closeTrace, closeLogged>>
    /\ UNCHANGED <<config, pipeline, newErr, phase, srv, grpcListener, messagev1, messagev3, chains,
                   janitor, wg, tasks, crashed, calls>>

CloseHTTP ==
    /\ Alive
    /\ closePc = "http"
    /\ closePc' = "grpc"
    /\ IF httpListener # Nil
       THEN /\ httpListener' = "closed"
            /\ closeTrace' = Append(closeTrace, "http")
            /\ closeLogged' = IF httpListener = "closed"
                              THEN closeLogged \cup {"closing http listener"}
                              ELSE closeLogged
       ELSE UNCHANGED <<httpListener, closeTrace, closeLogged>>
    /\ UNCHANGED <<config, pipeline, newErr, phase, srv, grpcListener, messagev1, messagev3, chains,
                   janitor, wg, tasks, crashed, calls>>

\* Close, third step: grpcListener.Close(); its error is logged.
CloseGRPC ==
    /\ Alive
    /\ closePc = "grpc"
    /\ closePc' = "wait"
    /\ IF grpcListener # Nil
       THEN /\ grpcListener' = "closed"
            /\ closeTrace' = Append(closeTrace, "grpc")
            /\ closeLogged' = IF grpcListener = "closed"
                              THEN closeLogged \cup {"closing grpc listener"}
                              ELSE closeLogged
       ELSE UNCHANGED <<grpcListener, closeTrace, closeLogged>>
    /\ UNCHANGED <<config, pipeline, newErr, phase, srv, httpListener, messagev1, messagev3, chains,
                   janitor, wg, tasks, crashed, calls>>

\* Close, last step: s.wg.Wait() returns once the counter is zero.
\* Variant: Close without the wait.
CloseWaitNoWait ==
    /\ Alive
    /\ closePc = "wait"
    /\ closePc' = "closed"
    /\ closeTrace' = Append(closeTrace, "wait")
    /\ UNCHANGED <<config, pipeline, newErr, phase, srv, handles, chains, janitor, wg, tasks, crashed,
                   closeLogged, calls>>

CloseWait ==
    /\ Alive
    /\ closePc = "wait"
    /\ wg = 0
    /\ closePc' = "closed"
    /\ closeTrace' = Append(closeTrace, "wait")
    /\ UNCHANGED <<config, pipeline, newErr, phase, srv, handles, chains, janitor, wg, tasks, crashed,
                   closeLogged, calls>>

\* ------------------------------------------------------------------ calls

ChainFor(kind) == IF kind = "unary" THEN unary ELSE stream

\* A call arrives on the serving gRPC server and runs down the interceptor
\* chain, to the business handler or to the authorizer's rejection; a
\* rejected call returns through the interceptors above the authorizer.
CallDispatch(c, kind, authOk) ==
    /\ Alive
    /\ calls[c].pc = "idle"
    /\ c > 1 => calls[c - 1].pc # "idle"
    /\ tasks["grpc"].pc = "running"
    /\ LET chain == ChainFor(kind)
           d == Descend(chain, 1, authOk)
           u == Unwind(chain, kind, d.depth, Result(Denied, FALSE))
       IN  calls' = [calls EXCEPT ![c] =
                IF d.reached
                THEN [ pc |-> "handler", kind |-> kind, trace |-> d.trace,
                       recs |-> <<>>, rejected |-> FALSE, res |-> Result(Nil, FALSE) ]
                ELSE [ pc |-> "done", kind |-> kind, trace |-> d.trace,
                       recs |-> u.recs, rejected |-> TRUE, res |-> u.res ]]
    /\ UNCHANGED <<config, pipeline, newErr, phase, srv, handles, chains, janitor, wg, tasks, crashed,
                   closing>>

\* The business handler of call c ends, returning err ("nil": success) or
\* panicking, and the result returns through the whole chain.  Nothing on
\* the way recovers a panic: it takes the process down.
CallHandlerEnd(c, err, panicked) ==
    /\ Alive
    /\ calls[c].pc = "handler"
    /\ panicked => err = Nil
    /\ LET chain == ChainFor(calls[c].kind)
           u == Unwind(chain, calls[c].kind, Len(chain), Result(err, panicked))
       IN  calls' = [calls EXCEPT ![c].pc = IF panicked THEN "panicked" ELSE "done",
                                  ![c].recs = u.recs,
                                  ![c].res = u.res]
    /\ crashed' = IF panicked THEN "call" ELSE crashed
    /\ UNCHANGED <<config, pipeline, newErr, phase, srv, handles, chains, janitor, wg, tasks, closing>>

\* ------------------------------------------------------------------- spec

Next ==
    \/ \E validOk \in BOOLEAN : NewBegin(validOk)
    \/ \E bindOk, v1Ok, v3Ok \in BOOLEAN : NewStartGRPC(bindOk, v1Ok, v3Ok)
    \/ \E dialOk, regOk, reg3Ok, bindOk \in BOOLEAN :
           NewStartHTTP(dialOk, regOk, reg3Ok, bindOk)
    \/ \E t \in ServeTasks, r \in Recovered, serveErr \in {"closed", "other"} :
           TaskEnd(t, r, serveErr)
    \/ CloseServices
    \/ CloseHTTP
    \/ CloseGRPC
    \/ CloseWait
    \/ \E c \in CallIds, kind \in {"unary", "stream"}, authOk \in BOOLEAN :
           CallDispatch(c, kind, authOk)
    \/ \E c \in CallIds, err \in {Nil, "Internal"}, panicked \in BOOLEAN :
           CallHandlerEnd(c, err, panicked)

Spec == Init /\ [][Next]_vars

\* ------------------------------------- request-handling functions, alone

\* Longest full method name, and longest x-forwarded-for value, evaluated.
MaxNameLen == 4

MaxHdrLen == 4

MethodNames == SeqsUpTo({"/", "a", "b"}, MaxNameLen)

HeaderValues == SeqsUpTo({"203.0.113.5", "10.0.0.1", ",", " "}, MaxHdrLen)

\* What md.Get("x-forwarded-for") can return: no value, one, or two.
ForwardedFor ==
    {<<>>} \cup { <<h>> : h \in HeaderValues }
           \cup { <<h, <<"10.0.0.1">>>> : h \in HeaderValues }

Paths ==
    { <<"/">>, <<"/", "swagger-ui">>, <<"/", "swagger-ui", "/", "index.html">>,
      <<"/", "swagger.json">>, <<"/", "message", "/", "v1", "/", "publish">> }

HTTPRequests ==
    [method : {"OPTIONS", "GET", "POST"}, acrm : {"", "POST"}, path : Paths]

server == <<config, phase, srv, handles, chains, janitor, wg, tasks, crashed,
            closing, calls, newErr>>

\* One call of splitMethodName.
ProbeSplit(name) ==
    /\ probe = NoProbe
    /\ probe' = [fn |-> "splitMethodName", in |-> name, out |-> splitMethodName(name)]
    /\ UNCHANGED <<server, reqs, sink>>

\* One evaluation of record's client-IP step.
ProbeClientIP(ips) ==
    /\ probe = NoProbe
    /\ probe' = [fn |-> "clientIP", in |-> ips, out |-> ClientIPField(ips)]
    /\ UNCHANGED <<server, reqs, sink>>

\* One HTTP request through allowCORS.
ProbeCORS(req) ==
    /\ probe = NoProbe
    /\ probe' = [fn |-> "allowCORS", in |-> req, out |-> allowCORS(req)]
    /\ UNCHANGED <<server, reqs, sink>>

FnInit == Init /\ ~authn /\ ~mls

FnNext ==
    \/ \E name \in MethodNames : ProbeSplit(name)
    \/ \E ips \in ForwardedFor : ProbeClientIP(ips)
    \/ \E req \in HTTPRequests : ProbeCORS(req)

FnSpec == FnInit /\ [][FnNext]_vars


\* ------------------------------------------- requests on a running server

ServiceName == "xmtp.message_api.v1.MessageApi"

MethodList == <<"Publish", "Query", "Subscribe", "BatchQuery", "SubscribeAll">>

\* Request r calls a method of its own.
MethodOf(r) == <<"/", ServiceName, "/", MethodList[r]>>

\* The gateway route of that method.
GatewayPath(r) == <<"/", "message", "/", "v1", "/", MethodList[r]>>

\* The x-forwarded-for metadata a call may carry.
ForwardedChoices == { <<>>, << <<"203.0.113.5", ",", " ", "10.0.0.1">> >> }

\* The server right after New has returned it.
PipeInit ==
    /\ authn \in BOOLEAN
    /\ mls = FALSE
    /\ phase = "Running"
    /\ srv = "s"
    /\ grpcListener = "open"
    /\ httpListener = "open"
    /\ messagev1 = "open"
    /\ messagev3 = Nil
    /\ unary = BuildChain(authn)
    /\ stream = BuildChain(authn)
    /\ janitor = IF authn THEN "running" ELSE "none"
    /\ wg = WgAfterSpawn("http", WgAfterSpawn("grpc", 0))
    /\ tasks = [t \in ServeTasks |-> Spawned]
    /\ crashed = "no"
    /\ closePc = "idle"
    /\ closeTrace = <<>>
    /\ closeLogged = {}
    /\ calls = [c \in CallIds |-> IdleCall]
    /\ newErr = Nil
    /\ reqs = [r \in ReqIds |-> IdleReq]
    /\ sink = <<>>
    /\ probe = NoProbe

\* record, lines 354-389: the fields logged and emitted for one call.
TelemetryRecord(fullMethod, ips, err) ==
    LET sm == splitMethodName(fullMethod)
    IN  [ service   |-> sm[1],
          method    |-> sm[2],
          client_ip |-> ClientIPField(ips),
          err       |-> err,
          error_code |-> IF err = Nil THEN <<>> ELSE <<err>>,
          level     |-> IF err = Nil THEN "debug" ELSE "info" ]

\* The records made when record is passed the errors errs for a call: each
\* from the call's own FullMethod and context.
RecordsOf(fullMethod, ips, errs) ==
    [i \in 1..Len(errs) |-> TelemetryRecord(fullMethod, ips, errs[i])]

\* Variant: the gateway registered on the service implementation itself.
GatewayTargetDirect == "direct"

\* What the gateway's handlers call: conn, the client connection dialGRPC
\* opens to this server's own gRPC listener.
GatewayTarget == "loopback"

\* A call of kind kind arrives at the gRPC server and goes down the chain;
\* a direct target is entered without the server's interceptors.
Entered(kind, authOk, target) ==
    IF target = "direct"
    THEN [trace |-> <<"handler">>, reached |-> TRUE, depth |-> 0]
    ELSE Descend(ChainFor(kind), 1, authOk)

\* Request r as a call: down the chain to the handler, or rejected and back.
AsCall(r, via, kind, ips, authOk, target) ==
    LET d == Entered(kind, authOk, target)
        denied == [err |-> Denied, panicked |-> FALSE, resp |-> Nil]
        u == Unwind(ChainFor(kind), kind, d.depth, denied)
        mine == [IdleReq EXCEPT !.via = via, !.kind = kind, !.call = TRUE,
                                !.fullMethod = MethodOf(r), !.xff = ips,
                                !.servedBy = IF via = "http" THEN "gwmux" ELSE "grpc",
                                !.trace = d.trace,
                                !.depth = d.depth]
    IN  IF d.reached
        THEN /\ reqs' = [reqs EXCEPT ![r] = [mine EXCEPT !.pc = "handler"]]
             /\ sink' = sink
        ELSE /\ reqs' = [reqs EXCEPT ![r] =
                           [mine EXCEPT !.pc = "done", !.hres = denied,
                                        !.ret = u.res, !.recErrs = u.recs]]
             /\ sink' = sink \o RecordsOf(MethodOf(r), ips, u.recs)

\* A call arrives on the gRPC listener.
PipeGRPCArrive(r, kind, ips, authOk) ==
    /\ Alive
    /\ tasks["grpc"].pc = "running"
    /\ reqs[r].pc = "idle"
    /\ r > 1 => reqs[r - 1].pc # "idle"
    /\ AsCall(r, "grpc", kind, ips, authOk, "loopback")
    /\ UNCHANGED <<server, probe>>

\* A request arrives on the HTTP listener: allowCORS, then the mux. What
\* reaches the gateway mux is sent as a call on the gateway's connection and
\* the HTTP goroutine waits for the reply; the rest is answered at once.
PipeHTTPArrive(r, req, kind, ips) ==
    /\ Alive
    /\ tasks["http"].pc = "running"
    /\ reqs[r].pc = "idle"
    /\ r > 1 => reqs[r - 1].pc # "idle"
    /\ IF allowCORS(req).servedBy = "gwmux"
       THEN reqs' = [reqs EXCEPT ![r] =
                       [IdleReq EXCEPT !.pc = "gateway", !.via = "http",
                                       !.servedBy = "gwmux", !.kind = kind,
                                       !.xff = ips]]
       ELSE reqs' = [reqs EXCEPT ![r] =
                       [IdleReq EXCEPT !.pc = "done", !.via = "http",
                                       !.servedBy = allowCORS(req).servedBy]]
    /\ UNCHANGED <<server, sink, probe>>

\* The call the gateway sent for request r arrives at its target.
PipeGatewayInvoke(r, authOk) ==
    /\ Alive
    /\ tasks["grpc"].pc = "running"
    /\ reqs[r].pc = "gateway"
    /\ AsCall(r, "http", reqs[r].kind, reqs[r].xff, authOk, GatewayTarget)
    /\ UNCHANGED <<server, probe>>

\* The business handler of call r ends and its result returns up the chain
\* from where the call entered it.
PipeHandlerEnd(r, err, panicked) ==
    /\ Alive
    /\ reqs[r].pc = "handler"
    /\ panicked => err = Nil
    /\ LET h == [err |-> err, panicked |-> panicked,
                 resp |-> IF err = Nil /\ ~panicked THEN "response" ELSE Nil]
           u == Unwind(ChainFor(reqs[r].kind), reqs[r].kind, reqs[r].depth, h)
       IN  /\ reqs' = [reqs EXCEPT ![r].pc = IF panicked THEN "panicked" ELSE "done",
                                   ![r].hres = h,
                                   ![r].ret = u.res,
                                   ![r].recErrs = u.recs]
           /\ sink' = sink \o RecordsOf(reqs[r].fullMethod, reqs[r].xff, u.recs)
    /\ crashed' = IF panicked THEN "call" ELSE crashed
    /\ UNCHANGED <<config, phase, srv, handles, chains, janitor, wg, tasks, closing,
                   calls, newErr, probe>>

PipeHTTPRequests(r) ==
    [method : {"OPTIONS", "POST"}, acrm : {"", "POST"},
     path : {<<"/">>, <<"/", "swagger.json">>, GatewayPath(r)}]

PipeNext ==
    \/ \E r \in ReqIds, kind \in {"unary", "stream"}, ips \in ForwardedChoices,
          authOk \in BOOLEAN :
           PipeGRPCArrive(r, kind, ips, authOk)
    \/ \E r \in ReqIds, kind \in {"unary", "stream"}, ips \in ForwardedChoices :
           \E req \in PipeHTTPRequests(r) : PipeHTTPArrive(r, req, kind, ips)
    \/ \E r \in ReqIds, authOk \in BOOLEAN : PipeGatewayInvoke(r, authOk)
    \/ \E r \in ReqIds, err \in {Nil, "Internal"}, panicked \in BOOLEAN :
           PipeHandlerEnd(r, err, panicked)

PipeSpec == PipeInit /\ [][PipeNext]_vars


\* ----------------------------------------------------------------- claims

Range(s) == { s[i] : i \in DOMAIN s }

IsPrefix(s, t) == Len(s) <= Len(t) /\ SubSeq(t, 1, Len(s)) = s

Finishes(span) == Cardinality({ i \in DOMAIN span : span[i].op = "finish" })

TaskOver(t) == tasks[t].pc \in {"done", "escaped"}

\* The order the specification prescribes for the interceptors.
ExpectedOrder ==
    IF authn THEN <<"metrics", "telemetry", "auth">> ELSE <<"metrics", "telemetry">>

\* C1: once the gRPC listener is bound, the unary and the stream interceptor
\* lists are metrics, telemetry, then the authorizer when authentication is
\* enabled; every call, unary or streaming, enters the interceptors in that
\* order, and reaches the business handler right after the last of them.
C1_InterceptorOrder ==
    /\ unary \in {<<>>, ExpectedOrder}
    /\ stream = unary
    /\ grpcListener # Nil => unary = ExpectedOrder
    /\ \A c \in CallIds :
          calls[c].pc # "idle" =>
              \/ calls[c].trace = ExpectedOrder \o <<"handler">>
              \/ authn /\ calls[c].rejected /\ calls[c].trace = ExpectedOrder

C1_Witness ==
    /\ authn
    /\ \E c, d \in CallIds :
          /\ calls[c].kind = "unary" /\ calls[c].pc = "done" /\ ~calls[c].rejected
          /\ calls[d].kind = "stream" /\ calls[d].pc = "done" /\ ~calls[d].rejected

\* C2: with authentication enabled, a call the authorizer rejected never
\* entered the business handler and has a telemetry record.
C2_RejectedCallRecorded ==
    \A c \in CallIds :
        (authn /\ calls[c].rejected) =>
            /\ calls[c].pc = "done"
            /\ "handler" \notin Range(calls[c].trace)
            /\ Len(calls[c].recs) >= 1

C2_Witness ==
    \E c, d \in CallIds :
        /\ authn
        /\ calls[c].rejected /\ calls[c].kind = "unary" /\ calls[c].pc = "done"
        /\ calls[d].rejected /\ calls[d].kind = "stream" /\ calls[d].pc = "done"

\* C3: every call that is over, whether its handler returned success,
\* returned an error or panicked, has exactly one telemetry record.
C3_OneRecordPerCompletedCall ==
    \A c \in CallIds :
        calls[c].pc \in {"done", "panicked"} => Len(calls[c].recs) = 1

\* C4: whenever Close has returned, the joiner's count is zero and no serve
\* loop is running; and once Close has been invoked the joiner's count never
\* goes up.
C4_CloseJoins ==
    /\ [](closePc = "closed" =>
            (wg = 0 /\ \A t \in ServeTasks : tasks[t].pc # "running"))
    /\ [][closePc # "idle" => wg' <= wg]_vars

C4_Witness ==
    /\ closePc = "closed"
    /\ \A t \in ServeTasks : tasks[t].pc = "done" /\ tasks[t].body = NoPanic

\* C5: when New has returned an error, no listener is open and no serve
\* loop is running.
C5_NoPartialStart ==
    srv = "nil" =>
        /\ grpcListener # "open"
        /\ httpListener # "open"
        /\ \A t \in ServeTasks : tasks[t].pc # "running"

\* C6: Close performs its steps in the order services, HTTP listener, gRPC
\* listener, joiner wait, and has performed all four when it returns; a
\* listener's close error is logged and Close goes on to the next step.
CloseOrder == <<"services", "http", "grpc", "wait">>

C6_CloseOrder ==
    /\ [](/\ IsPrefix(closeTrace, CloseOrder)
          /\ closePc = "closed" => closeTrace = CloseOrder)
    /\ [][(closePc = "http" /\ closePc' # "http" /\ httpListener = "closed") =>
             ("closing http listener" \in closeLogged' /\ closePc' = "grpc")]_vars
    /\ [][(closePc = "grpc" /\ closePc' # "grpc" /\ grpcListener = "closed") =>
             ("closing grpc listener" \in closeLogged' /\ closePc' = "wait")]_vars

C6_Witness ==
    /\ closePc = "closed"
    /\ closeLogged = {"closing http listener", "closing grpc listener"}

\* C7: the span of a Do invocation has no finish before the action ends and
\* exactly one once Do is over, however the action ended; and when the
\* action panicked, a panic leaves Do.
C7_SpanFinishedOnce ==
    \A t \in ServeTasks :
        /\ ~TaskOver(t) => Finishes(tasks[t].span) = 0
        /\ TaskOver(t) =>
              /\ Finishes(tasks[t].span) = 1
              /\ tasks[t].body # NoPanic => tasks[t].doOut # NoPanic

C7_Witness ==
    /\ TaskOver("grpc") /\ tasks["grpc"].body.kind = "other"
    /\ TaskOver("http") /\ tasks["http"].body.kind = "error"

\* C8: when the action panicked, the span's finish carries the panic value
\* as its error tag if that value is an error and no tag otherwise, the
\* finish comes before the re-panic, and the value that leaves Do is the
\* value the action panicked with.
C8_FaultTagAndIdentity ==
    \A t \in ServeTasks :
        (TaskOver(t) /\ tasks[t].body # NoPanic) =>
            LET sp  == tasks[t].span
                b   == tasks[t].body
                tag == IF b.kind = "error" THEN b ELSE NoPanic
            IN  /\ \E i, j \in DOMAIN sp :
                      /\ i < j
                      /\ sp[i] = [op |-> "finish", val |-> tag]
                      /\ sp[j] = [op |-> "panic", val |-> b]
                /\ tasks[t].doOut = b

C8_Witness ==
    /\ TaskOver("grpc") /\ tasks["grpc"].body = [kind |-> "error", val |-> "e2"]
    /\ TaskOver("http") /\ tasks["http"].body = [kind |-> "other", val |-> "s1"]

\* C9: when a serve loop's body panics, the step that ends the task leaves
\* the process alive, logs the panic value, counts the task as done on the
\* joiner and leaves the other serve loop as it was; and the joiner's count
\* is zero whenever no serve loop is running, so Close's wait can return.
C9_TaskFaultContained ==
    /\ [][\A t \in ServeTasks :
            (tasks[t].pc = "running" /\ tasks'[t].pc # "running"
                /\ tasks'[t].body # NoPanic) =>
                /\ crashed' = crashed
                /\ tasks'[t].pc = "done"
                /\ tasks'[t].logged = tasks'[t].body
                /\ wg' = wg - 1
                /\ \A u \in ServeTasks \ {t} : tasks'[u] = tasks[u]]_vars
    /\ []((\A t \in ServeTasks : tasks[t].pc # "running") => wg = 0)

C9_Witness ==
    /\ crashed = "no"
    /\ tasks["grpc"].pc = "done" /\ tasks["grpc"].body # NoPanic
    /\ tasks["http"].pc = "running"

\* C10: Close invoked on what New returned after construction failed does
\* not panic.
C10_CloseOnFailedServer ==
    srv = "nil" => closePc # "panicked"

\* C15: with authentication enabled the Janitor is counted on the joiner,
\* so that when Close has returned the Janitor is no longer running.
C15_JanitorJoined ==
    (authn /\ closePc = "closed") => janitor # "running"

\* C16: no call's business handler is running while messagev1 is closed,
\* and no call's handler is still running when Close has returned.
C16_NoHandlerAfterServiceClose ==
    \A c \in CallIds :
        calls[c].pc = "handler" =>
            (messagev1 # "closed" /\ closePc # "closed")

\* C17: once Close is past its first step, and so before it closes any
\* listener, every business service that startGRPC registered is closed,
\* the MLS service included.
C17_AllServicesClosed ==
    closePc \in {"http", "grpc", "wait", "closed"} =>
        /\ messagev1 # Nil => messagev1 = "closed"
        /\ messagev3 # Nil => messagev3 = "closed"

\* The server's lifecycle state, read off New's progress and Close's.
Lifecycle ==
    IF phase # "Running" THEN phase
    ELSE IF closePc = "idle" THEN "Running"
    ELSE IF closePc = "closed" THEN "Closed"
    ELSE "Closing"

LifecycleSteps ==
    { <<"Unstarted", "StartingGRPC">>, <<"StartingGRPC", "StartingHTTP">>,
      <<"StartingHTTP", "Running">>, <<"Running", "Closing">>,
      <<"Closing", "Closed">>,
      <<"Unstarted", "Failed">>, <<"StartingGRPC", "Failed">>,
      <<"StartingHTTP", "Failed">> }

\* C19: the lifecycle only steps from a state to the next one of Unstarted,
\* Starting(gRPC), Starting(HTTP), Running, Closing, Closed, or from a state
\* before Running to failed; and after New has returned the gRPC bind
\* error, the HTTP listener was never bound and no task was spawned.
C19_Lifecycle ==
    /\ [][Lifecycle' # Lifecycle => <<Lifecycle, Lifecycle'>> \in LifecycleSteps]_vars
    /\ [](newErr = "creating grpc listener" =>
            /\ srv = "nil"
            /\ httpListener = Nil
            /\ janitor = "none"
            /\ wg = 0
            /\ \A t \in ServeTasks : tasks[t].pc = "none")

C19_Witness ==
    /\ newErr = "creating grpc listener"
    /\ Lifecycle = "Failed"
    /\ grpcListener = Nil

\* C12: a request with method OPTIONS and a non-empty
\* Access-Control-Request-Method header is served by the preflight handler
\* alone, with the fixed allow lists; every other request goes on to the
\* wrapped handler; every response has Access-Control-Allow-Origin: *.
AllowMethods == <<"GET", ",", "HEAD", ",", "POST", ",", "PUT", ",", "PATCH", ",", "DELETE">>

AllowHeaders ==
    <<"Content-Type", ",", "Accept", ",", "Authorization", ",", "X-Client-Version", ",",
      "X-App-Version", ",", "Baggage", ",", "DNT", ",", "Sec-CH-UA", ",",
      "Sec-CH-UA-Mobile", ",", "Sec-CH-UA-Platform", ",", "Sentry-Trace", ",",
      "User-Agent">>

C12_Preflight ==
    probe.fn = "allowCORS" =>
        /\ <<"Access-Control-Allow-Origin", <<"*">>>> \in probe.out.headers
        /\ IF probe.in.method = "OPTIONS" /\ probe.in.acrm # ""
           THEN /\ probe.out.servedBy = "preflight"
                /\ <<"Access-Control-Allow-Methods", AllowMethods>> \in probe.out.headers
                /\ <<"Access-Control-Allow-Headers", AllowHeaders>> \in probe.out.headers
           ELSE probe.out.servedBy \in {"swaggerUI", "swaggerJSON", "gwmux"}

C12_Witness ==
    /\ probe.fn = "allowCORS"
    /\ probe.in.method = "OPTIONS" /\ probe.in.acrm = "POST"
    /\ probe.in.path = <<"/", "message", "/", "v1", "/", "publish">>
    /\ probe.out.servedBy = "preflight"

\* C13 as stated: the name is split at its first separator, and a name
\* without separator gives unknown for both.
C13_SplitOnFirstSeparator ==
    probe.fn = "splitMethodName" =>
        LET name == probe.in
            i == Index(name, "/")
        IN  IF i = 0
            THEN probe.out = <<Unknown, Unknown>>
            ELSE probe.out = <<SubSeq(name, 1, i - 1), SubSeq(name, i + 1, Len(name))>>

\* C13, amended: one leading separator is dropped first; the rest is split
\* at its first separator, the service being the part before it (which holds
\* no separator) and the method all that follows; when the rest holds no
\* separator, as for every name without any separator, both are unknown.
C13_SplitAfterLeadingSeparator ==
    probe.fn = "splitMethodName" =>
        LET name == probe.in
            rest == IF Len(name) > 0 /\ name[1] = "/"
                    THEN SubSeq(name, 2, Len(name)) ELSE name
        IN  IF "/" \notin Range(rest)
            THEN probe.out = <<Unknown, Unknown>>
            ELSE /\ probe.out[1] \o <<"/">> \o probe.out[2] = rest
                 /\ "/" \notin Range(probe.out[1])

C13_Witness ==
    /\ probe.fn = "splitMethodName"
    /\ probe.in = <<"/", "a", "/", "b">>
    /\ probe.out = <<(<<"a">>), (<<"b">>)>>

\* C14: without x-forwarded-for value no client_ip field is made; otherwise
\* exactly one, which is the part of the first value before its first comma
\* with the blanks at both ends removed; "203.0.113.5, 10.0.0.1" gives
\* "203.0.113.5".
C14_ClientIP ==
    probe.fn = "clientIP" =>
        /\ probe.in = <<>> => probe.out = <<>>
        /\ probe.in # <<>> =>
              /\ Len(probe.out) = 1
              /\ LET h == probe.in[1]
                     ip == probe.out[1]
                 IN  /\ "," \notin Range(ip)
                     /\ ip # <<>> => (ip[1] # " " /\ ip[Len(ip)] # " ")
                     /\ \E a \in 0..Len(h), b \in 0..Len(h) :
                           /\ h = [i \in 1..a |-> " "] \o ip \o [i \in 1..b |-> " "]
                                    \o SubSeq(h, a + Len(ip) + b + 1, Len(h))
                           /\ a + Len(ip) + b <= Len(h)
                           /\ a + Len(ip) + b < Len(h) => h[a + Len(ip) + b + 1] = ","
        /\ (probe.in # <<>> /\ probe.in[1] = <<"203.0.113.5", ",", " ", "10.0.0.1">>) =>
              probe.out = << <<"203.0.113.5">> >>

C14_Witness ==
    /\ probe.fn = "clientIP"
    /\ probe.in = << <<"203.0.113.5", ",", " ", "10.0.0.1">>, <<"10.0.0.1">> >>
    /\ probe.out = << <<"203.0.113.5">> >>

\* The calls among the requests, and those of them that have returned.
PipeCalls == {r \in ReqIds : reqs[r].call}

Returned == {r \in PipeCalls : reqs[r].pc = "done"}

\* The records in the sink that name call r's service and method.
RecordsNaming(r) ==
    {i \in DOMAIN sink : /\ sink[i].service = <<ServiceName>>
                         /\ sink[i].method = <<MethodList[r]>>}

\* C18: the telemetry interceptors never change a call's outcome: what a
\* returned call gives its caller is exactly the response and error of the
\* handler below the interceptor; a unary call passes that error to the
\* recorder, a streaming call always passes it nil.
C18_TelemetryTransparent ==
    \A r \in Returned :
        /\ reqs[r].ret = reqs[r].hres
        /\ reqs[r].kind = "unary" => reqs[r].recErrs = <<reqs[r].hres.err>>
        /\ reqs[r].kind = "stream" => reqs[r].recErrs = <<Nil>>

C18_Witness ==
    \E r, q \in Returned :
        /\ reqs[r].kind = "stream" /\ reqs[r].hres.err = "Internal"
        /\ reqs[r].ret.err = "Internal" /\ reqs[r].recErrs = <<Nil>>
        /\ reqs[q].kind = "unary" /\ reqs[q].hres.err = "Internal"
        /\ reqs[q].ret.err = "Internal" /\ reqs[q].recErrs = <<"Internal">>

\* The calls that are over: the handler returned, the authorizer rejected the
\* call, or the handler panicked.
Over == {r \in PipeCalls : reqs[r].pc \in {"done", "panicked"}}

\* C11: for calls running concurrently on different methods, under every
\* interleaving there is exactly one telemetry record per call that is over,
\* and each record carries the service, method and outcome of its own call.
C11_RecordsOwnOutcome ==
    /\ Len(sink) = Cardinality(Over)
    /\ \A r \in Over :
           \E i \in DOMAIN sink :
               /\ RecordsNaming(r) = {i}
               /\ sink[i].err = reqs[r].ret.err

\* C20: every HTTP request that is not a preflight, documentation or schema
\* request becomes a call on the loopback connection to this server's gRPC
\* listener, and passes the interceptors a direct gRPC call passes, in the
\* same order, each once, before the business handler; the other HTTP
\* requests become no call.
C20_GatewaySameChain ==
    \A r \in ReqIds :
        reqs[r].via = "http" =>
            IF reqs[r].servedBy \in {"preflight", "swaggerUI", "swaggerJSON"}
            THEN ~reqs[r].call /\ reqs[r].trace = <<>>
            ELSE IF reqs[r].pc = "gateway"
            THEN ~reqs[r].call /\ reqs[r].trace = <<>> /\ GatewayTarget = "loopback"
            ELSE /\ reqs[r].call
                 /\ reqs[r].trace \in {ExpectedOrder \o <<"handler">>, ExpectedOrder}
                 /\ reqs[r].trace = ExpectedOrder => authn /\ reqs[r].ret.err = Denied
                 /\ \A q \in ReqIds :
                        reqs[q].via = "grpc" /\ (reqs[q].pc = "handler" <=> reqs[r].pc = "handler")
                            /\ (reqs[q].ret.err = Denied <=> reqs[r].ret.err = Denied)
                            /\ reqs[q].kind = reqs[r].kind
                            /\ reqs[q].pc # "panicked" /\ reqs[r].pc # "panicked"
                        => reqs[q].trace = reqs[r].trace

C20_Witness ==
    \E r, q \in ReqIds :
        /\ reqs[r].via = "http" /\ reqs[r].call /\ reqs[r].pc = "handler"
        /\ reqs[q].via = "grpc" /\ reqs[q].pc = "handler"
        /\ authn
        /\ reqs[r].trace = <<"metrics", "telemetry", "auth", "handler">>
        /\ reqs[q].trace = reqs[r].trace

====
